---------------------------- MODULE Spec2Model ----------------------------
(***************************************************************************)
(* A model of the progress-bar condition generator                         *)
(* (src/progress.py, generate_pbar_conditions) and of the markup renderer  *)
(* used to inspect its output (src/tests/test_progress.py,                 *)
(* pretty_print_markup and _render_all_colors_iteratively).                *)
(*                                                                         *)
(* A Python str is modelled as a sequence of one-character strings.  The   *)
(* eight block glyphs U+258F .. U+2588 are written "g1" .. "g8" and the    *)
(* escape character U+001B is written "ESC"; each is ONE character.        *)
(***************************************************************************)
EXTENDS Integers, Sequences, FiniteSets, TLC

VARIABLES
    config,          \* PBarConfig handed to generate_pbar_conditions
    gpc,             \* position inside generate_pbar_conditions
    steps,           \* the local list `steps`
    idx,             \* 1-based position of the for loop in `steps`
    conditions,      \* the local list `conditions`
    cmap_calls,      \* arguments given to config.cmap so far, as <<num, den>>
    gerror,          \* the exception that ended the call, or "none"
    markup,          \* argument of pretty_print_markup
    rpc,             \* position inside pretty_print_markup
    processed_markup,\* markup after the font tags were removed
    current_text,    \* current_text of _render_all_colors_iteratively
    iterations       \* replacements done by the color loop so far

gvars == <<config, gpc, steps, idx, conditions, cmap_calls, gerror>>
rvars == <<markup, rpc, processed_markup, current_text, iterations>>
vars == <<config, gpc, steps, idx, conditions, cmap_calls, gerror,
          markup, rpc, processed_markup, current_text, iterations>>

----------------------------------------------------------------------------
(* Bounds of the model.                                                    *)

MaxLength == 3
MaxStepSize == 3
MaxNegative == 2
MaxFrags == 3
SignalMargin == 2

(* Program constants.                                                      *)

DefaultLength == 10
DefaultStepSize == 1
PostfixWidth == 5

----------------------------------------------------------------------------
(* Strings.                                                                *)

Max(a, b) == IF a >= b THEN a ELSE b
Abs(a) == IF a >= 0 THEN a ELSE -a

RECURSIVE Repeat(_, _)
\* Python's  c * n  on a one-character string: empty when n <= 0.
Repeat(c, n) == IF n <= 0 THEN <<>> ELSE <<c>> \o Repeat(c, n - 1)

RECURSIVE Concat(_)
Concat(ss) == IF ss = <<>> THEN <<>> ELSE Head(ss) \o Concat(Tail(ss))

\* Whether pat occurs in s starting at position p (1-based).
IsPrefixAt(s, p, pat) ==
    /\ p >= 1
    /\ p + Len(pat) - 1 <= Len(s)
    /\ \A k \in 1..Len(pat) : s[p + k - 1] = pat[k]

Contains(s, pat) == \E p \in 1..Len(s) : IsPrefixAt(s, p, pat)

Count(s, pat) == Cardinality({p \in 1..Len(s) : IsPrefixAt(s, p, pat)})

DecDigits == <<"0", "1", "2", "3", "4", "5", "6", "7", "8", "9">>
LowerHex == <<"0", "1", "2", "3", "4", "5", "6", "7", "8", "9",
              "a", "b", "c", "d", "e", "f">>
UpperHex == <<"0", "1", "2", "3", "4", "5", "6", "7", "8", "9",
              "A", "B", "C", "D", "E", "F">>

RECURSIVE DecStr(_)
\* str(n) for n >= 0.
DecStr(n) ==
    IF n < 10 THEN <<DecDigits[n + 1]>>
    ELSE DecStr(n \div 10) \o <<DecDigits[(n % 10) + 1]>>

RECURSIVE LStrip(_)
LStrip(s) == IF s # <<>> /\ Head(s) = " " THEN LStrip(Tail(s)) ELSE s

RECURSIVE RStrip(_)
RStrip(s) ==
    IF s # <<>> /\ s[Len(s)] = " " THEN RStrip(SubSeq(s, 1, Len(s) - 1)) ELSE s

\* str.strip()
Strip(s) == RStrip(LStrip(s))

FontOpenTag == <<"[", "f", "o", "n", "t", "=", "t", "e", "c", "h", "n", "o",
                 "l", "o", "g", "y", "-", "s", "l", "o", "t", "-", "l", "e",
                 "v", "e", "l", "-", "f", "o", "n", "t", "]">>
FontCloseTag == <<"[", "/", "f", "o", "n", "t", "]">>
FontOpenStart == <<"[", "f", "o", "n", "t", "=">>
ColorOpenStart == <<"[", "c", "o", "l", "o", "r", "=">>
ColorCloseTag == <<"[", "/", "c", "o", "l", "o", "r", "]">>

----------------------------------------------------------------------------
(* generate_pbar_conditions (src/progress.py).                             *)

\* substeps: the block characters, lightest to heaviest.
substeps == <<"g1", "g2", "g3", "g4", "g5", "g6", "g7", "g8">>
divs == Len(substeps)

\* const_color(hex) of __main__, as the RGB bytes of its colour; cmap = None
\* is [kind |-> "none"].
NoCmap == [kind |-> "none", rgb |-> <<0, 0, 0>>]
const_color(rgb) == [kind |-> "const", rgb |-> rgb]
Purple == <<142, 29, 204>>        \* "#8e1dcc"

\* config.cmap(x): a constant mapper ignores its argument.
CallCmap(cmap, num, den) == cmap.rgb

\* mpl.colors.rgb2hex: "#" and two lower-case hex digits per channel.
rgb2hex(rgb) ==
    <<"#">> \o Concat([i \in 1..3 |->
        <<LowerHex[(rgb[i] \div 16) + 1], LowerHex[(rgb[i] % 16) + 1]>>])

\* range() that only counts upwards: empty for every negative step.
RangeForwardOnly(start, stop, step) ==
    LET n == IF step > 0 /\ stop > start
             THEN (stop - start + step - 1) \div step ELSE 0
    IN  [k \in 1..n |-> start + (k - 1) * step]

\* list(range(start, stop, step)) for step # 0.
Range(start, stop, step) ==
    LET n == IF step > 0
             THEN (IF stop > start THEN (stop - start + step - 1) \div step ELSE 0)
             ELSE (IF start > stop THEN (start - stop - step - 1) \div (-step) ELSE 0)
    IN  [k \in 1..n |-> start + (k - 1) * step]

max_threshold(cfg) == cfg.length * divs

\* BuildSteps without lines 60-61.
BuildStepsNoAppend(cfg) == Range(-1, max_threshold(cfg), cfg.step_size)

\* steps, once range() has returned a non-empty list (lines 59-61).
BuildSteps(cfg) ==
    LET r == Range(-1, max_threshold(cfg), cfg.step_size)
    IN  IF r[Len(r)] < max_threshold(cfg) - 1
        THEN Append(r, max_threshold(cfg) - 1)
        ELSE r

\* Python's // and % round towards minus infinity.
FloorDiv(a, b) == a \div b
PyMod(a, b) == a % b

num_before(step) == Max(FloorDiv(step, divs), 0)
num_cur(step) == PyMod(step, divs)
\* num_after without the cell reserved for the current glyph (line 73).
num_after_unreserved(cfg, step) == cfg.length - num_before(step)

num_after(cfg, step) ==
    IF step = -1 THEN cfg.length - num_before(step)
    ELSE cfg.length - num_before(step) - 1

\* A color span whose closing tag was forgotten.
ColorSpanUnclosed(color, body) == ColorOpenStart \o color \o <<"]">> \o body

ColorSpan(color, body) ==
    ColorOpenStart \o color \o <<"]">> \o body \o ColorCloseTag

\* bar, before and after the colour is applied (lines 69-80).
RawBar(step) ==
    IF step = -1 THEN <<>>
    ELSE Repeat(substeps[divs], num_before(step)) \o <<substeps[num_cur(step) + 1]>>

Bar(cfg, step) ==
    IF cfg.cmap.kind # "none" /\ RawBar(step) # <<>>
    THEN ColorSpan(rgb2hex(CallCmap(cfg.cmap, step, max_threshold(cfg) - 1)),
                   RawBar(step))
    ELSE RawBar(step)

\* The decimal tie of  x.x5  is decided by the binary64 value of
\* step / denom * 100.  For the denominators 8, 16, 32 the value is exact and
\* the tie goes to the even digit (24 has no tie); for 80 (the default
\* length) three values land off the tie: 23 and 51 below it, 49 above it.
TieRoundsUp(step, denom, q) ==
    IF denom = 80 /\ step \in {23, 51} THEN FALSE
    ELSE IF denom = 80 /\ step = 49 THEN TRUE
    ELSE q % 2 = 1

\* f"{step / denom * 100:>5.1f}%" for denom # 0 (line 83).
FormatPostfix(step, denom) ==
    LET neg == (step > 0 /\ denom < 0) \/ (step < 0 /\ denom > 0)
                 \/ (step = 0 /\ denom < 0)         \* 0 / -8 is -0.0
        a == Abs(step) * 1000
        b == Abs(denom)
        q == a \div b
        r == a % b
        tenths == IF 2 * r > b THEN q + 1
                  ELSE IF 2 * r < b THEN q
                  ELSE IF TieRoundsUp(Abs(step), b, q) THEN q + 1 ELSE q
        body == (IF neg THEN <<"-">> ELSE <<>>) \o DecStr(tenths \div 10)
                   \o <<".">> \o <<DecDigits[(tenths % 10) + 1]>>
    IN  Repeat(" ", PostfixWidth - Len(body)) \o body \o <<"%">>

\* num_postfix_prefix and the stripped postfix (lines 84-85).
num_postfix_prefix(postfix) == Len(postfix) - Len(Strip(postfix))

\* end, before and after the colour is applied (lines 87-91); step is the
\* incremented value.
RawEnd(cfg, step0) ==
    Repeat(substeps[divs], num_after(cfg, step0))
        \o Repeat("0", num_postfix_prefix(FormatPostfix(step0 + 1, max_threshold(cfg))))

End(cfg, step0) ==
    IF RawEnd(cfg, step0) # <<>> /\ cfg.cmap.kind # "none"
    THEN ColorSpan(rgb2hex(CallCmap(cfg.cmap, step0 + 1, max_threshold(cfg) - 1)),
                   RawEnd(cfg, step0))
    ELSE RawEnd(cfg, step0)

\* text (lines 93-94).
Text(cfg, step0) ==
    cfg.prefix \o FontOpenTag \o Bar(cfg, step0) \o End(cfg, step0)
        \o FontCloseTag \o <<" ", " ">>
        \o Strip(FormatPostfix(step0 + 1, max_threshold(cfg)))

\* cond: the template with constant and text filled in (lines 97-99).
Cond(cfg, step0) ==
    [constant |-> step0 + 1, comparator |-> "=", text |-> Text(cfg, step0)]

\* The arguments of the calls of config.cmap made for one step, in order
\* (line 77 is reached for every step, line 89 only when end is non-empty).
BarCmapCalls(cfg, step0) ==
    IF cfg.cmap.kind # "none" THEN << <<step0, max_threshold(cfg) - 1>> >> ELSE <<>>

EndCmapCalls(cfg, step0) ==
    IF RawEnd(cfg, step0) # <<>> /\ cfg.cmap.kind # "none"
    THEN << <<step0 + 1, max_threshold(cfg) - 1>> >>
    ELSE <<>>

\* Line 106 left out.
SetComparatorsFirstOnly(conds) == [conds EXCEPT ![1].comparator = "<="]

\* Lines 105-106: the first comparator, then the last.
SetComparators(conds) ==
    LET c1 == [conds EXCEPT ![1].comparator = "<="]
    IN  [c1 EXCEPT ![Len(c1)].comparator = ">="]

Prefixes == { <<>>, <<"P", ":">>,
              <<"[", "c", "o", "l", "o", "r", "=", "#", "F", "F", "0", "0", "0", "0", "]">> }

Cmaps == {NoCmap, const_color(Purple)}

Configs ==
    [length : (-MaxNegative)..MaxLength,
     step_size : (-MaxNegative)..MaxStepSize,
     cmap : Cmaps,
     prefix : Prefixes]
    \cup
    [length : {DefaultLength}, step_size : {DefaultStepSize},
     cmap : Cmaps, prefix : {<<>>}]

\* Before anything is called.
Init ==
    /\ config = [length |-> DefaultLength, step_size |-> DefaultStepSize,
                 cmap |-> NoCmap, prefix |-> <<>>]
    /\ gpc = "idle"
    /\ steps = <<>>
    /\ idx = 0
    /\ conditions = <<>>
    /\ cmap_calls = <<>>
    /\ gerror = "none"
    /\ markup = <<>>
    /\ rpc = "idle"
    /\ processed_markup = <<>>
    /\ current_text = <<>>
    /\ iterations = 0

\* generate_pbar_conditions(config) is called (line 40).
GenCall ==
    /\ gpc = "idle"
    /\ config' \in Configs
    /\ gpc' = "start"
    /\ UNCHANGED <<steps, idx, conditions, cmap_calls, gerror>>
    /\ UNCHANGED rvars

\* Lines 57-61: range() rejects a zero step; steps[-1] needs a non-empty list.
GenSteps ==
    /\ gpc = "start"
    /\ IF config.step_size = 0
       THEN /\ gpc' = "error"
            /\ gerror' = "ValueError"
            /\ UNCHANGED <<steps, idx>>
       ELSE IF Range(-1, max_threshold(config), config.step_size) = <<>>
       THEN /\ gpc' = "error"
            /\ gerror' = "IndexError"
            /\ UNCHANGED <<steps, idx>>
       ELSE /\ steps' = BuildSteps(config)
            /\ idx' = 1
            /\ gpc' = "loop"
            /\ UNCHANGED gerror
    /\ UNCHANGED <<config, conditions, cmap_calls>>
    /\ UNCHANGED rvars

\* Lines 64-101: one pass of the for loop.  The division of line 83 fails
\* when length * divs is zero, after line 77 has called the mapper.
GenBody ==
    /\ gpc = "loop"
    /\ idx <= Len(steps)
    /\ LET step == steps[idx] IN
       IF max_threshold(config) = 0
       THEN /\ cmap_calls' = cmap_calls \o BarCmapCalls(config, step)
            /\ gpc' = "error"
            /\ gerror' = "ZeroDivisionError"
            /\ UNCHANGED <<conditions, idx>>
       ELSE /\ cmap_calls' = cmap_calls \o BarCmapCalls(config, step)
                                \o EndCmapCalls(config, step)
            /\ conditions' = Append(conditions, Cond(config, step))
            /\ idx' = idx + 1
            /\ UNCHANGED <<gpc, gerror>>
    /\ UNCHANGED <<config, steps>>
    /\ UNCHANGED rvars

\* Lines 104-107: after the loop.
GenReturn ==
    /\ gpc = "loop"
    /\ idx > Len(steps)
    /\ conditions' = SetComparators(conditions)
    /\ gpc' = "done"
    /\ UNCHANGED <<config, steps, idx, cmap_calls, gerror>>
    /\ UNCHANGED rvars

GNext == GenCall \/ GenSteps \/ GenBody \/ GenReturn

Spec == Init /\ [][GNext]_vars

----------------------------------------------------------------------------
(* Properties of the generator.                                            *)

ValidConfig == config.length >= 1 /\ config.step_size >= 1
Returned == gpc = "done"
Last(seq) == seq[Len(seq)]

\* C1: for length >= 1 and stepSize >= 1 the returned list is non-empty, its
\* thresholds are strictly increasing, the first comparator is "<=", the last
\* is ">=" and every other one is "=".
C1_Shape ==
    (Returned /\ ValidConfig) =>
        /\ Len(conditions) >= 1
        /\ \A i \in 1..(Len(conditions) - 1) :
              conditions[i].constant < conditions[i + 1].constant
        /\ conditions[1].comparator = "<="
        /\ Last(conditions).comparator = ">="
        /\ \A i \in 2..(Len(conditions) - 1) : conditions[i].comparator = "="

\* A returned list with inner conditions.
C1_Witness == Returned /\ ValidConfig /\ Len(conditions) >= 3

\* C2 as stated: the threshold of the final condition is length*8 - 1.
C2_Original ==
    (Returned /\ ValidConfig) =>
        Last(conditions).constant = config.length * 8 - 1

\* C2: for length >= 1 and stepSize >= 1 the threshold of the final condition
\* is length*8, also when stepSize does not divide length*8; the first is 0;
\* length 10 with stepSize 1 gives 81 conditions, thresholds 0 to 80.
C2_Amended ==
    (Returned /\ ValidConfig) =>
        /\ Last(conditions).constant = config.length * 8
        /\ conditions[1].constant = 0
        /\ config.step_size = 1 => Len(conditions) = config.length * 8 + 1
        /\ (config.length = 10 /\ config.step_size = 1) =>
              /\ Len(conditions) = 81
              /\ Last(conditions).constant = 80

\* A returned list for a step size that does not divide length*8.
C2_Witness ==
    /\ Returned
    /\ ValidConfig
    /\ (config.length * 8) % config.step_size # 0
    /\ Len(conditions) >= 2

\* How the display panel reads one condition for a signal value.
Satisfies(c, v) ==
    CASE c.comparator = "<=" -> v <= c.constant
      [] c.comparator = ">=" -> v >= c.constant
      [] OTHER -> v = c.constant

\* C3: for length >= 1 and stepSize >= 1 every integer signal value satisfies
\* exactly one condition of the returned list.
C3_Partition ==
    (Returned /\ ValidConfig) =>
        \A v \in (-SignalMargin)..(config.length * 8 + SignalMargin) :
            Cardinality({i \in 1..Len(conditions) :
                            Satisfies(conditions[i], v)}) = 1

\* C8: every argument handed to the color mapper lies in [0, 1].
C8_UnitInterval ==
    ValidConfig =>
        \A i \in 1..Len(cmap_calls) :
            /\ cmap_calls[i][2] > 0
            /\ 0 <= cmap_calls[i][1]
            /\ cmap_calls[i][1] <= cmap_calls[i][2]

BothNegative == config.length < 0 /\ config.step_size < 0

\* C9 as stated: with length < 1 or stepSize < 1 the call never returns.
C9_Original == (gpc # "idle" /\ ~ValidConfig) => ~Returned

\* C9: with length < 1 or stepSize < 1 the call fails with an error before it
\* has produced any condition, unless length and stepSize are both negative:
\* then it raises nothing and returns a list.
C9_Amended ==
    (gpc # "idle" /\ ~ValidConfig) =>
        IF BothNegative
        THEN /\ gpc # "error"
             /\ gerror = "none"
             /\ Returned => Len(conditions) >= 1
        ELSE /\ ~Returned
             /\ conditions = <<>>
             /\ gpc = "loop" => (idx = 1 /\ max_threshold(config) = 0)
             /\ gpc = "error" =>
                   gerror \in {"ValueError", "IndexError", "ZeroDivisionError"}

\* An invalid configuration whose call ended in the division of line 83.
C9_Witness ==
    gpc = "error" /\ ~ValidConfig /\ gerror = "ZeroDivisionError"

First(s, pat) ==
    CHOOSE p \in 1..Len(s) :
        IsPrefixAt(s, p, pat) /\ \A q \in 1..(p - 1) : ~IsPrefixAt(s, q, pat)

RECURSIVE DropTags(_)
\* s without its "[...]" tags.
DropTags(s) ==
    IF s = <<>> THEN <<>>
    ELSE IF Head(s) = "[" /\ \E j \in 1..Len(s) : s[j] = "]"
    THEN DropTags(SubSeq(s, 1 + (CHOOSE j \in 1..Len(s) :
                                    s[j] = "]" /\ \A k \in 1..(j - 1) : s[k] # "]"),
                         Len(s)))
    ELSE <<Head(s)>> \o DropTags(Tail(s))

\* What is shown between the font tags, and the label behind them.
VisibleBar(text) ==
    DropTags(SubSeq(text, First(text, FontOpenTag) + Len(FontOpenTag),
                    First(text, FontCloseTag) - 1))
LabelOf(text) ==
    SubSeq(text, First(text, FontCloseTag) + Len(FontCloseTag) + 2, Len(text))

IsGlyph(c) == \E i \in 1..divs : c = substeps[i]

ConstantWidth(c) ==
    LET vis == VisibleBar(c.text)
        label == LabelOf(c.text)
        glyphs == Cardinality({i \in 1..Len(vis) : IsGlyph(vis[i])})
        zeros == Len(vis) - glyphs
        s == c.constant - 1
        before == s \div 8
        after == config.length - before - 1
    IN  /\ glyphs = config.length
        /\ IF c.constant = 0
           THEN vis = Repeat("g8", config.length) \o Repeat("0", zeros)
           ELSE /\ after >= 0
                /\ vis = Repeat("g8", before) \o <<substeps[(s % 8) + 1]>>
                           \o Repeat("g8", after) \o Repeat("0", zeros)
        /\ zeros + Len(label) = 6
        /\ Last(label) = "%"
        /\ \A i \in 1..Len(label) : label[i] # " "

\* C10: for length >= 1 and stepSize >= 1 every condition shows `length`
\* block glyphs (numBefore full, one partial, numAfter >= 0 full; or `length`
\* full for the zero step) and its "0" fillers plus its label take 6 cells.
C10_ConstantWidth ==
    (ValidConfig /\ gpc # "idle") =>
        \A i \in 1..Len(conditions) : ConstantWidth(conditions[i])

\* A returned bar of several cells, built with a color mapper.
C10_Witness ==
    /\ Returned
    /\ ValidConfig
    /\ config.length >= 2
    /\ config.cmap.kind # "none"
    /\ Len(conditions) >= 3

----------------------------------------------------------------------------
(* pretty_print_markup (src/tests/test_progress.py).                       *)

\* FONT_OPEN_RE,  \[font=[^\]]+\] : the position of the closing "]" of a
\* match starting at p, or 0.  [^\]]+ needs one character that is not "]",
\* then runs to the first "]".
FontOpenEnd(s, p) ==
    IF IsPrefixAt(s, p, FontOpenStart)
          /\ p + Len(FontOpenStart) <= Len(s)
          /\ s[p + Len(FontOpenStart)] # "]"
    THEN LET ends == {j \in (p + Len(FontOpenStart) + 1)..Len(s) : s[j] = "]"}
         IN  IF ends = {} THEN 0 ELSE CHOOSE j \in ends : \A k \in ends : j <= k
    ELSE 0

RECURSIVE SubFontOpen(_, _)
\* FONT_OPEN_RE.sub("", s), scanning from position p.
SubFontOpen(s, p) ==
    IF p > Len(s) THEN <<>>
    ELSE IF FontOpenEnd(s, p) # 0 THEN SubFontOpen(s, FontOpenEnd(s, p) + 1)
    ELSE <<s[p]>> \o SubFontOpen(s, p + 1)

RECURSIVE Remove(_, _, _)
\* s.replace(pat, ""), scanning from position p.
Remove(s, pat, p) ==
    IF p > Len(s) THEN <<>>
    ELSE IF IsPrefixAt(s, p, pat) THEN Remove(s, pat, p + Len(pat))
    ELSE <<s[p]>> \o Remove(s, pat, p + 1)

\* Step 1 of pretty_print_markup.
StripFonts(s) == Remove(SubFontOpen(s, 1), FontCloseTag, 1)

IsHex(c) == \E i \in 1..16 : c = LowerHex[i] \/ c = UpperHex[i]

\* int(c, 16) of one character; -1 stands for the ValueError of a non-digit.
HexVal(c) ==
    IF IsHex(c)
    THEN (CHOOSE i \in 1..16 : c = LowerHex[i] \/ c = UpperHex[i]) - 1
    ELSE -1

\* The hex digits starting at position p, counted up to 9.
HexRun(s, p) ==
    Cardinality({n \in 1..9 : \A k \in 0..(n - 1) :
                     p + k <= Len(s) /\ IsHex(s[p + k])})

\* How many hex digits  #[0-9A-Fa-f]{6,8}  may take.
HexCountOk(n) == n >= 6 /\ n <= 8

\* \[color=(?P<hex>#[0-9A-Fa-f]{6,8})\] at position p: the number of hex
\* digits of the match, or 0.
ColorOpenAt(s, p) ==
    LET h == p + Len(ColorOpenStart) + 1
        n == HexRun(s, h)
    IN  IF /\ IsPrefixAt(s, p, ColorOpenStart \o <<"#">>)
           /\ HexCountOk(n)
           /\ h + n <= Len(s)
           /\ s[h + n] = "]"
        THEN n ELSE 0

\* The lookahead (?!\[color=) of the text group.
Blocks(s, q) == IsPrefixAt(s, q, ColorOpenStart)

RECURSIVE TextEndOrEof(_, _)
\* TextEnd that lets the end of the string close an unterminated span.
TextEndOrEof(s, q) ==
    IF q > Len(s) THEN q
    ELSE IF IsPrefixAt(s, q, ColorCloseTag) THEN q
    ELSE IF Blocks(s, q) THEN 0
    ELSE TextEndOrEof(s, q + 1)

RECURSIVE TextEnd(_, _)
\* (?P<text>(?:(?!\[color=).)*?)\[/color\] from position q: the position of
\* the "[/color]" that ends the lazy text group, or 0.
TextEnd(s, q) ==
    IF q > Len(s) THEN 0
    ELSE IF IsPrefixAt(s, q, ColorCloseTag) THEN q
    ELSE IF Blocks(s, q) THEN 0
    ELSE TextEnd(s, q + 1)

\* Whether INNERMOST_COLOR_RE matches starting at position p.
MatchAt(s, p) ==
    /\ ColorOpenAt(s, p) # 0
    /\ TextEnd(s, p + Len(ColorOpenStart) + 1 + ColorOpenAt(s, p) + 1) # 0

NoMatch == [start |-> 0, hex |-> <<>>, text |-> <<>>, end |-> 0]

\* INNERMOST_COLOR_RE.search(s): the leftmost match, with its groups and its
\* span (start and end inclusive), or NoMatch.
Search(s) ==
    LET starts == {p \in 1..Len(s) : MatchAt(s, p)}
    IN  IF starts = {} THEN NoMatch
        ELSE LET p == CHOOSE x \in starts : \A y \in starts : x <= y
                 n == ColorOpenAt(s, p)
                 h == p + Len(ColorOpenStart)
                 q == h + 1 + n + 1
                 e == TextEnd(s, q)
             IN  [start |-> p,
                  hex |-> SubSeq(s, h, h + n),
                  text |-> SubSeq(s, q, e - 1),
                  end |-> e + Len(ColorCloseTag) - 1]

\* rgb_hex = hex_code[-6:] and the three int(.., 16) (lines 107-110).
RgbOf(hex) ==
    LET rgb_hex == SubSeq(hex, Len(hex) - 5, Len(hex))
        Byte(i) == IF HexVal(rgb_hex[i]) < 0 \/ HexVal(rgb_hex[i + 1]) < 0 THEN -1
                   ELSE 16 * HexVal(rgb_hex[i]) + HexVal(rgb_hex[i + 1])
    IN  <<Byte(1), Byte(3), Byte(5)>>

AnsiOpen(rgb) ==
    <<"ESC", "[", "3", "8", ";", "2", ";">> \o DecStr(rgb[1]) \o <<";">>
        \o DecStr(rgb[2]) \o <<";">> \o DecStr(rgb[3]) \o <<"m">>
AnsiReset == <<"ESC", "[", "0", "m">>

\* ansi_colored_text (line 113).
AnsiColored(m) == AnsiOpen(RgbOf(m.hex)) \o m.text \o AnsiReset

\* Replace with the slice taken one tag too early: the close tag survives.
ReplaceKeepClose(s, m) ==
    SubSeq(s, 1, m.start - 1) \o AnsiColored(m)
        \o SubSeq(s, m.end - Len(ColorCloseTag) + 1, Len(s))

\* current_text[:start] + ansi_colored_text + current_text[end:] (line 120).
Replace(s, m) ==
    SubSeq(s, 1, m.start - 1) \o AnsiColored(m) \o SubSeq(s, m.end + 1, Len(s))

RECURSIVE RenderAllColors(_)
\* _render_all_colors_iteratively as a function (used where the loop is known
\* to end).
RenderAllColors(s) ==
    IF Search(s) = NoMatch THEN s ELSE RenderAllColors(Replace(s, Search(s)))

\* What pretty_print_markup prints, without the newline.
PrettyPrint(s) == RenderAllColors(StripFonts(s))

Open6 == <<"[", "c", "o", "l", "o", "r", "=", "#", "F", "F", "0", "0", "0", "0", "]">>
Open8 == <<"[", "c", "o", "l", "o", "r", "=", "#", "8", "0", "0", "0", "f", "f", "0", "0", "]">>
Span8 == Open8 \o <<"y">> \o ColorCloseTag
Open7 == <<"[", "c", "o", "l", "o", "r", "=", "#", "1", "2", "3", "4", "5", "6", "7", "]">>
FontA == <<"[", "f", "o", "n", "t", "=", "a", "]">>
SplitClose == <<"[", "/", "c", "o", "[", "/", "f", "o", "n", "t", "]", "l", "o", "r", "]">>

\* The pieces the inputs of the renderer are built from.
Fragments ==
    { <<"x">>, Open6, Span8, Open7, ColorCloseTag, ColorOpenStart,
      FontA, FontCloseTag, SplitClose }

Markups == {Concat(fs) : fs \in UNION {[1..n -> Fragments] : n \in 0..MaxFrags}}

\* pretty_print_markup(markup) is called (line 125).
RenderCall ==
    /\ rpc = "idle"
    /\ markup' \in Markups
    /\ rpc' = "start"
    /\ UNCHANGED <<processed_markup, current_text, iterations>>
    /\ UNCHANGED gvars

\* Lines 137-138, and the entry of _render_all_colors_iteratively (line 94).
RenderStripFonts ==
    /\ rpc = "start"
    /\ processed_markup' = StripFonts(markup)
    /\ current_text' = StripFonts(markup)
    /\ rpc' = "color"
    /\ UNCHANGED <<markup, iterations>>
    /\ UNCHANGED gvars

\* Lines 97-120: one pass of the while loop that finds a match.
RenderColorIter ==
    /\ rpc = "color"
    /\ Search(current_text) # NoMatch
    /\ LET m == Search(current_text) IN
       IF \E i \in 1..3 : RgbOf(m.hex)[i] < 0
       THEN /\ rpc' = "error"
            /\ UNCHANGED <<current_text, iterations>>
       ELSE /\ current_text' = Replace(current_text, m)
            /\ iterations' = iterations + 1
            /\ UNCHANGED rpc
    /\ UNCHANGED <<markup, processed_markup>>
    /\ UNCHANGED gvars

\* Lines 98-99, 122 and 144: no match, the loop ends and the text is printed.
RenderReturn ==
    /\ rpc = "color"
    /\ Search(current_text) = NoMatch
    /\ rpc' = "done"
    /\ UNCHANGED <<markup, processed_markup, current_text, iterations>>
    /\ UNCHANGED gvars

RNext == RenderCall \/ RenderStripFonts \/ RenderColorIter \/ RenderReturn

SpecRender == Init /\ [][RNext]_vars

----------------------------------------------------------------------------
(* Properties of the renderer.                                             *)

\* The color-open and color-close tags present in a text, as the loop's
\* pattern recognises them.
NumOpens(s) == Cardinality({p \in 1..Len(s) : ColorOpenAt(s, p) # 0})
NumCloses(s) == Count(s, ColorCloseTag)
NumEsc(s) == Cardinality({p \in 1..Len(s) : s[p] = "ESC"})

\* One replacement removes exactly one open tag and one close tag: nothing
\* it inserts or joins forms a new tag, and no more spans can be matched
\* afterwards than before.
C4_Decreases ==
    RenderColorIter =>
        /\ rpc' # "error"
        /\ NumOpens(current_text') = NumOpens(current_text) - 1
        /\ NumCloses(current_text') = NumCloses(current_text) - 1
        /\ Cardinality({p \in 1..Len(current_text') : MatchAt(current_text', p)})
             <= Cardinality({p \in 1..Len(current_text) : MatchAt(current_text, p)})

\* The loop never raises and has done as
\* many replacements as close tags have disappeared, so it does at most
\* NumCloses(processed_markup) of them.
C4_Bounded ==
    /\ rpc # "error"
    /\ rpc \in {"color", "done"} =>
          /\ iterations + NumCloses(current_text) = NumCloses(processed_markup)
          /\ iterations + NumOpens(current_text) = NumOpens(processed_markup)
    /\ rpc = "done" => Search(current_text) = NoMatch

\* Each state of the loop has a step: RenderColorIter and RenderReturn have
\* complementary guards.
\* C4: the renderer is total: for every input the color-resolution loop
\* ends after finitely many replacements (each removes one color-open and one
\* color-close tag and creates none) and returns without raising an error.
C4_Total == [][C4_Decreases]_vars /\ []C4_Bounded

\* A run of the loop that did two replacements and returned.
C4_Witness == rpc = "done" /\ iterations >= 2

\* The stack discipline the color loop is compared with.  Tags are those of
\* the grammar: color-open is "[color=#", 6 or 8 hex digits, "]".
GrammarOpenAt(s, p) ==
    LET h == p + Len(ColorOpenStart) + 1
        n == HexRun(s, h)
    IN  IF /\ IsPrefixAt(s, p, ColorOpenStart \o <<"#">>)
           /\ n \in {6, 8}
           /\ h + n <= Len(s)
           /\ s[h + n] = "]"
        THEN n ELSE 0

RECURSIVE Flush(_)
\* Unmatched opens at the end of the input stay literal.
Flush(st) ==
    IF Len(st) = 1 THEN st[1].acc
    ELSE LET top == st[Len(st)]
             below == SubSeq(st, 1, Len(st) - 1)
         IN  Flush([below EXCEPT ![Len(below)].acc = @ \o top.tag \o top.acc])

RECURSIVE StackRun(_, _, _)
StackRun(s, p, st) ==
    IF p > Len(s) THEN Flush(st)
    ELSE IF GrammarOpenAt(s, p) # 0
    THEN LET e == p + Len(ColorOpenStart) + 1 + GrammarOpenAt(s, p)
         IN  StackRun(s, e + 1, Append(st, [tag |-> SubSeq(s, p, e), acc |-> <<>>]))
    ELSE IF IsPrefixAt(s, p, ColorCloseTag)
    THEN IF Len(st) > 1
         THEN LET top == st[Len(st)]
                  below == SubSeq(st, 1, Len(st) - 1)
                  hex == SubSeq(top.tag, Len(ColorOpenStart) + 1, Len(top.tag) - 1)
                  span == AnsiOpen(RgbOf(hex)) \o top.acc \o AnsiReset
              IN  StackRun(s, p + Len(ColorCloseTag),
                           [below EXCEPT ![Len(below)].acc = @ \o span])
         ELSE StackRun(s, p + Len(ColorCloseTag),
                       [st EXCEPT ![1].acc = @ \o ColorCloseTag])
    ELSE StackRun(s, p + 1, [st EXCEPT ![Len(st)].acc = @ \o <<s[p]>>])

StackRender(s) == StackRun(s, 1, <<[tag |-> <<>>, acc |-> <<>>]>>)

\* C5: for every input the color loop's output equals that of the stack
\* discipline over the tag grammar (each "[/color]" closes the most recently
\* opened still-open color-open tag; unmatched tags stay literal).
C5_StackEquivalence ==
    rpc = "done" => current_text = StackRender(processed_markup)

\* An open tag with no "[/color]" after it is in the output verbatim with all
\* that follows it; a "[/color]" with no open tag before it is in the output
\* verbatim with all that precedes it; and there are exactly two escape
\* characters per open tag and per close tag that disappeared.
C6_Verbatim ==
    LET pm == processed_markup
        ct == current_text
        n == Len(pm)
    IN  /\ \A p \in 1..n :
             (ColorOpenAt(pm, p) # 0
                 /\ ~ \E q \in p..n : IsPrefixAt(pm, q, ColorCloseTag))
             => /\ Len(ct) >= n - p + 1
                /\ SubSeq(ct, Len(ct) - (n - p), Len(ct)) = SubSeq(pm, p, n)
        /\ \A q \in 1..n :
             (IsPrefixAt(pm, q, ColorCloseTag)
                 /\ ~ \E p \in 1..q : ColorOpenAt(pm, p) # 0)
             => SubSeq(ct, 1, q + Len(ColorCloseTag) - 1)
                  = SubSeq(pm, 1, q + Len(ColorCloseTag) - 1)
        /\ NumEsc(ct) = 2 * (NumOpens(pm) - NumOpens(ct))
        /\ NumEsc(ct) = 2 * (NumCloses(pm) - NumCloses(ct))

NoTags(s) ==
    /\ \A p \in 1..Len(s) : FontOpenEnd(s, p) = 0 /\ ColorOpenAt(s, p) = 0
    /\ ~Contains(s, FontCloseTag)
    /\ ~Contains(s, ColorCloseTag)

RendersClean(text) ==
    /\ NoTags(PrettyPrint(text))
    /\ PrettyPrint(PrettyPrint(text)) = PrettyPrint(text)

\* C7 as stated: for any prefix, every generated text renders to a string
\* with no tag left, which renders to itself.
C7_Original ==
    (Returned /\ ValidConfig) =>
        \A i \in 1..Len(conditions) : RendersClean(conditions[i].text)

\* C7: for length >= 1, stepSize >= 1 and a prefix that contains no "[",
\* with or without a color mapper, every generated text renders to a string
\* with no font or color tag left, and rendering that string again returns it
\* unchanged.
C7_Amended ==
    (Returned /\ ValidConfig /\ \A k \in 1..Len(config.prefix) : config.prefix[k] # "[") =>
        \A i \in 1..Len(conditions) : RendersClean(conditions[i].text)

\* A returned list with a plain prefix and colored spans.
C7_Witness ==
    /\ Returned
    /\ ValidConfig
    /\ config.prefix = <<"P", ":">>
    /\ config.cmap.kind # "none"

====
